---- MODULE Spec2Model ----
(***************************************************************************)
(* Model of the impersonation core of rquest:                              *)
(*   - Impersonate (the closed enumeration) and its FromStr table,         *)
(*   - OkHttpTlsSettings::try_into (the engine configuration sequence),    *)
(*   - tls_settings (the dispatch), ImpersonateSettings, and the           *)
(*     conditional_headers! macro with its per-profile LazyLock static.    *)
(* Three specifications share the module: SpecParse (the parser), SpecTls  *)
(* (the TLS conversion) and Spec (concurrent callers of tls_settings).     *)
(***************************************************************************)
EXTENDS Naturals, Sequences, FiniteSets, TLC

VARIABLES
    \* ---- parser (SpecParse)
    text,        \* the &str handed to the latest from_str call ("-" before any)
    parsed,      \* the Result of the latest from_str call
    prevText,    \* the &str of the call before it
    prevParsed,  \* its Result
    \* ---- TLS conversion (SpecTls)
    tlsIn,       \* the arguments given to OkHttpTlsSettings::builder()
    tlsRejects,  \* the engine calls the cryptographic engine rejects
    tlsOut,      \* the outcome of try_into (NoResult before the call)
    \* ---- build (Spec)
    cache,       \* per get_settings module: the LazyLock<HeaderMap> static
    pc,          \* per caller thread: its position inside tls_settings
    call,        \* per caller thread: the arguments of its current call
    ncalls,      \* calls of tls_settings started so far, by all callers
    ret,         \* per caller thread: what its latest call returned
    nextInst,    \* identity of the next HeaderMap the initializers allocate
    initCount,   \* per module: how often its header initializer has run
    returned     \* per module: identities of the header maps handed out

parseVars == <<text, parsed, prevText, prevParsed>>
tlsVars   == <<tlsIn, tlsRejects, tlsOut>>
buildVars == <<cache, pc, call, ncalls, ret, nextInst, initCount, returned>>
vars      == <<parseVars, tlsVars, buildVars>>

Range(f) == {f[i] : i \in DOMAIN f}

-----------------------------------------------------------------------------
(* The Impersonate enumeration, in declaration order.                       *)

Impersonate ==
    << "Chrome100", "Chrome101", "Chrome104", "Chrome105", "Chrome106",
       "Chrome107", "Chrome108", "Chrome109", "Chrome114", "Chrome116",
       "Chrome117", "Chrome118", "Chrome119", "Chrome120", "Chrome123",
       "Chrome124", "Chrome126", "Chrome127", "Chrome128", "Chrome129",
       "Chrome130", "Chrome131",
       "SafariIos17_2", "SafariIos17_4_1", "SafariIos16_5", "Safari15_3",
       "Safari15_5", "Safari15_6_1", "Safari16", "Safari16_5", "Safari17_0",
       "Safari17_2_1", "Safari17_4_1", "Safari17_5", "Safari18", "SafariIPad18",
       "OkHttp3_9", "OkHttp3_11", "OkHttp3_13", "OkHttp3_14", "OkHttp4_9",
       "OkHttp4_10", "OkHttp5",
       "Edge101", "Edge122", "Edge127" >>

Variants == Range(Impersonate)

\* #[default] Chrome131
ImpersonateDefault == "Chrome131"

-----------------------------------------------------------------------------
(* impl_from_str!: the (variant, string) rows, in source order.             *)

impl_from_str_rows_dup ==
    << <<"Chrome100", "chrome_100">>, <<"Chrome101", "chrome_101">>,
       <<"Chrome104", "chrome_104">>, <<"Chrome105", "chrome_105">>,
       <<"Chrome106", "chrome_106">>, <<"Chrome107", "chrome_107">>,
       <<"Chrome108", "chrome_108">>, <<"Chrome109", "chrome_109">>,
       <<"Chrome114", "chrome_114">>, <<"Chrome116", "chrome_116">>,
       <<"Chrome117", "chrome_117">>, <<"Chrome118", "chrome_118">>,
       <<"Chrome119", "chrome_119">>, <<"Chrome120", "chrome_120">>,
       <<"Chrome123", "chrome_123">>, <<"Chrome124", "chrome_124">>,
       <<"Chrome126", "chrome_126">>, <<"Chrome127", "chrome_127">>,
       <<"Chrome128", "chrome_128">>, <<"Chrome129", "chrome_129">>,
       <<"Chrome130", "chrome_130">>, <<"Chrome131", "chrome_131">>,
       <<"SafariIos17_2", "safari_ios_17.2">>,
       <<"SafariIos17_4_1", "safari_ios_17.4.1">>,
       <<"SafariIos16_5", "safari_ios_16.5">>,
       <<"Safari15_3", "safari_15.3">>, <<"Safari15_5", "safari_15.5">>,
       <<"Safari15_6_1", "safari_15.6.1">>, <<"Safari16", "safari_16">>,
       <<"Safari16_5", "safari_16.5">>, <<"Safari17_0", "safari_17.0">>,
       <<"Safari17_2_1", "safari_17.2.1">>,
       <<"Safari17_2_1", "safari_17.4.1">>,
       <<"Safari17_5", "safari_17.5">>, <<"Safari18", "safari_18">>,
       <<"SafariIPad18", "safari_ipad_18">>,
       <<"OkHttp3_9", "okhttp_3.9">>, <<"OkHttp3_11", "okhttp_3.11">>,
       <<"OkHttp3_13", "okhttp_3.13">>, <<"OkHttp3_14", "okhttp_3.14">>,
       <<"OkHttp4_9", "okhttp_4.9">>, <<"OkHttp4_10", "okhttp_4.10">>,
       <<"OkHttp5", "okhttp_5">>,
       <<"Edge101", "edge_101">>, <<"Edge122", "edge_122">>,
       <<"Edge127", "edge_127">> >>

impl_from_str_rows ==
    << <<"Chrome100", "chrome_100">>, <<"Chrome101", "chrome_101">>,
       <<"Chrome104", "chrome_104">>, <<"Chrome105", "chrome_105">>,
       <<"Chrome106", "chrome_106">>, <<"Chrome107", "chrome_107">>,
       <<"Chrome108", "chrome_108">>, <<"Chrome109", "chrome_109">>,
       <<"Chrome114", "chrome_114">>, <<"Chrome116", "chrome_116">>,
       <<"Chrome117", "chrome_117">>, <<"Chrome118", "chrome_118">>,
       <<"Chrome119", "chrome_119">>, <<"Chrome120", "chrome_120">>,
       <<"Chrome123", "chrome_123">>, <<"Chrome124", "chrome_124">>,
       <<"Chrome126", "chrome_126">>, <<"Chrome127", "chrome_127">>,
       <<"Chrome128", "chrome_128">>, <<"Chrome129", "chrome_129">>,
       <<"Chrome130", "chrome_130">>, <<"Chrome131", "chrome_131">>,
       <<"SafariIos17_2", "safari_ios_17.2">>,
       <<"SafariIos17_4_1", "safari_ios_17.4.1">>,
       <<"SafariIos16_5", "safari_ios_16.5">>,
       <<"Safari15_3", "safari_15.3">>, <<"Safari15_5", "safari_15.5">>,
       <<"Safari15_6_1", "safari_15.6.1">>, <<"Safari16", "safari_16">>,
       <<"Safari16_5", "safari_16.5">>, <<"Safari17_0", "safari_17.0">>,
       <<"Safari17_2_1", "safari_17.2.1">>,
       <<"Safari17_4_1", "safari_17.4.1">>,
       <<"Safari17_5", "safari_17.5">>, <<"Safari18", "safari_18">>,
       <<"SafariIPad18", "safari_ipad_18">>,
       <<"OkHttp3_9", "okhttp_3.9">>, <<"OkHttp3_11", "okhttp_3.11">>,
       <<"OkHttp3_13", "okhttp_3.13">>, <<"OkHttp3_14", "okhttp_3.14">>,
       <<"OkHttp4_9", "okhttp_4.9">>, <<"OkHttp4_10", "okhttp_4.10">>,
       <<"OkHttp5", "okhttp_5">>,
       <<"Edge101", "edge_101">>, <<"Edge122", "edge_122">>,
       <<"Edge127", "edge_127">> >>

\* The strings of the table.
TableStrings == {impl_from_str_rows[i][2] : i \in DOMAIN impl_from_str_rows}

Ok(v)  == [kind |-> "Ok", value |-> v]
Err(e) == [kind |-> "Err", error |-> e]

\* `_ => Ok(Impersonate::default())` in place of the Err arm.
from_str_fallback(s) ==
    LET hits == {i \in DOMAIN impl_from_str_rows : impl_from_str_rows[i][2] = s}
    IN  IF hits # {}
        THEN Ok(impl_from_str_rows[CHOOSE i \in hits : \A j \in hits : i <= j][1])
        ELSE Ok(ImpersonateDefault)

\* fn from_str(s: &str) -> Result<Self, String>: a match on string literals;
\* the first arm whose literal equals s wins, `_` formats the error.
from_str(s) ==
    LET hits == {i \in DOMAIN impl_from_str_rows : impl_from_str_rows[i][2] = s}
    IN  IF hits # {}
        THEN Ok(impl_from_str_rows[CHOOSE i \in hits : \A j \in hits : i <= j][1])
        ELSE Err("Unknown impersonate version: " \o s)

\* Texts that are no entry of the table: unknown versions, other case,
\* prefixes and extensions of entries, surrounding blanks, names of variants.
ForeignTexts ==
    { "chrome_999", "Chrome_131", "CHROME_131", "chrome_13", "chrome_1311",
      "chrome131", " chrome_131", "chrome_131 ", "", "chrome", "chrome_",
      "safari_ios_17.4", "safari_17", "safari_17.4.1.", "safari_ipad18",
      "okhttp_4.1", "okhttp_4", "okhttp_5.0", "edge", "edge_12", "Edge_127",
      "Chrome131", "chrome-131", "safari_18.0" }

ParseInputs == TableStrings \cup ForeignTexts

NoText == "-"
NoResult == [kind |-> "None"]


\* A caller parses s; the call before it is remembered.
Parse(s) ==
    /\ text' = s
    /\ parsed' = from_str(s)
    /\ prevText' = text
    /\ prevParsed' = parsed
    /\ UNCHANGED <<tlsVars, buildVars>>

-----------------------------------------------------------------------------
(* OkHttpTlsSettings and its conversion to TlsSettings.                     *)

None == [some |-> FALSE]
Some(v) == [some |-> TRUE, value |-> v]

\* const SIGALGS_LIST: [&str; 9]
SIGALGS_LIST ==
    << "ecdsa_secp256r1_sha256", "rsa_pss_rsae_sha256", "rsa_pkcs1_sha256",
       "ecdsa_secp384r1_sha384", "rsa_pss_rsae_sha384", "rsa_pkcs1_sha384",
       "rsa_pss_rsae_sha512", "rsa_pkcs1_sha512", "rsa_pkcs1_sha1" >>

\* The literal of unwrap_or(&[..]) in try_into.
DefaultCurves == << "X25519", "SECP256R1", "SECP384R1" >>

\* The struct built by OkHttpTlsSettings::builder(): curves defaults to None,
\* sigalgs_list to &SIGALGS_LIST, cipher_list is mandatory.
OkHttpTlsSettings(curves, sigalgs_list, cipher_list) ==
    [ curves       |-> curves,
      sigalgs_list |-> IF sigalgs_list.some THEN sigalgs_list.value
                       ELSE SIGALGS_LIST,
      cipher_list  |-> cipher_list ]

RECURSIVE JoinFrom(_, _, _, _)
JoinFrom(list, sep, i, acc) ==
    IF i > Len(list) THEN acc
    ELSE JoinFrom(list, sep, i + 1, acc \o sep \o list[i])

RECURSIVE JoinEach(_, _, _, _)
JoinEach(list, sep, i, acc) ==
    IF i > Len(list) THEN acc
    ELSE JoinEach(list, sep, i + 1, acc \o list[i] \o sep)

\* Every entry followed by the separator, the last one too.
join_trailing(list, sep) == JoinEach(list, sep, 1, "")

\* [&str]::join(sep): the first entry, then sep and the entry for each other
\* one; the empty string for the empty slice.
join(list, sep) ==
    IF Len(list) = 0 THEN "" ELSE JoinFrom(list, sep, 2, list[1])

\* The engine calls of try_into that return a Result (each is followed by
\* `?`); enable_ocsp_stapling returns nothing.
FallibleCalls ==
    { "SslConnector::builder", "set_curves", "set_sigalgs_list",
      "set_cipher_list", "set_min_proto_version", "set_max_proto_version" }

Unset == "unset"

\* A fresh SslConnectorBuilder; `calls` logs the engine calls made on it.
NewBuilder ==
    [ ocsp_stapling |-> FALSE, curves |-> Unset, sigalgs |-> Unset,
      ciphers |-> Unset, min |-> Unset, max |-> Unset,
      calls |-> << "SslConnector::builder" >> ]

\* One engine call: the engine either rejects it with its ErrorStack or
\* applies it to the builder. `rejects` is the engine's verdict per call.
EngineResult(b, name, field, value, rejects) ==
    LET logged == [b EXCEPT !.calls = Append(@, name)]
    IN  IF name \in rejects
        THEN [ok |-> FALSE, b |-> logged, error |-> name]
        ELSE [ok |-> TRUE, b |-> [logged EXCEPT ![field] = value]]

SslConnector_builder(rejects) ==
    IF "SslConnector::builder" \in rejects
    THEN [ok |-> FALSE, b |-> [calls |-> << "SslConnector::builder" >>],
          error |-> "SslConnector::builder"]
    ELSE [ok |-> TRUE, b |-> NewBuilder]

enable_ocsp_stapling(b) ==
    [b EXCEPT !.ocsp_stapling = TRUE,
              !.calls = Append(@, "enable_ocsp_stapling")]

set_curves(b, curves, rejects) ==
    EngineResult(b, "set_curves", "curves", curves, rejects)
set_sigalgs_list(b, s, rejects) ==
    EngineResult(b, "set_sigalgs_list", "sigalgs", s, rejects)
set_cipher_list(b, s, rejects) ==
    EngineResult(b, "set_cipher_list", "ciphers", s, rejects)
set_min_proto_version(b, v, rejects) ==
    EngineResult(b, "set_min_proto_version", "min", v, rejects)
set_max_proto_version(b, v, rejects) ==
    EngineResult(b, "set_max_proto_version", "max", v, rejects)

\* `?` on an Err: the function returns the error; `calls` keeps what the
\* engine was asked up to then.
Raise(r) == [kind |-> "Err", error |-> r.error, calls |-> r.b.calls]

\* TlsSettings::builder().connector(builder).http_version_pref(All).build()
TlsSettingsOf(b) ==
    [ kind  |-> "Ok",
      value |-> [ connector |-> [f \in DOMAIN b \ {"calls"} |-> b[f]],
                  http_version_pref |-> "All" ],
      calls |-> b.calls ]

\* try_into without the `?` after set_cipher_list: its error is dropped.
try_into_unchecked_ciphers(self, rejects) ==
    LET r0 == SslConnector_builder(rejects) IN
    IF ~r0.ok THEN Raise(r0) ELSE
    LET b1 == enable_ocsp_stapling(r0.b)
        r2 == set_curves(b1, IF self.curves.some THEN self.curves.value
                             ELSE DefaultCurves, rejects) IN
    IF ~r2.ok THEN Raise(r2) ELSE
    LET r3 == set_sigalgs_list(r2.b, join(self.sigalgs_list, ":"), rejects) IN
    IF ~r3.ok THEN Raise(r3) ELSE
    LET r4 == set_cipher_list(r3.b, join(self.cipher_list, ":"), rejects)
        r5 == set_min_proto_version(r4.b, "TLS1_2", rejects) IN
    IF ~r5.ok THEN Raise(r5) ELSE
    LET r6 == set_max_proto_version(r5.b, "TLS1_3", rejects) IN
    IF ~r6.ok THEN Raise(r6) ELSE
    TlsSettingsOf(r6.b)

\* fn try_into(self) -> Result<TlsSettings, ErrorStack>
try_into(self, rejects) ==
    LET r0 == SslConnector_builder(rejects) IN
    IF ~r0.ok THEN Raise(r0) ELSE
    LET b1 == enable_ocsp_stapling(r0.b)
        r2 == set_curves(b1, IF self.curves.some THEN self.curves.value
                             ELSE DefaultCurves, rejects) IN
    IF ~r2.ok THEN Raise(r2) ELSE
    LET r3 == set_sigalgs_list(r2.b, join(self.sigalgs_list, ":"), rejects) IN
    IF ~r3.ok THEN Raise(r3) ELSE
    LET r4 == set_cipher_list(r3.b, join(self.cipher_list, ":"), rejects) IN
    IF ~r4.ok THEN Raise(r4) ELSE
    LET r5 == set_min_proto_version(r4.b, "TLS1_2", rejects) IN
    IF ~r5.ok THEN Raise(r5) ELSE
    LET r6 == set_max_proto_version(r5.b, "TLS1_3", rejects) IN
    IF ~r6.ok THEN Raise(r6) ELSE
    TlsSettingsOf(r6.b)

\* ---- inputs of the conversion
MaxCiphers == 2

CipherNames ==
    { "TLS_AES_128_GCM_SHA256", "TLS_AES_256_GCM_SHA384",
      "TLS_ECDHE_RSA_WITH_AES_128_GCM_SHA256" }

CipherLists ==
    UNION {[1..n -> CipherNames] : n \in 0..MaxCiphers}

SigalgsOverrides ==
    { None,
      Some(<< "ecdsa_secp256r1_sha256" >>),
      Some(<< "rsa_pkcs1_sha1", "rsa_pkcs1_sha256" >>) }

CurveOverrides ==
    { None,
      Some(<< "X25519" >>),
      Some(<< "SECP384R1", "X25519" >>),
      Some(<< "X25519", "SECP256R1", "SECP384R1", "SECP521R1" >>) }


\* OkHttpTlsSettings::builder()..build().try_into() on the builder
\* arguments tlsIn, with the engine rejecting the calls in tlsRejects.
Convert ==
    /\ tlsOut = NoResult
    /\ tlsOut' = try_into(OkHttpTlsSettings(tlsIn.curves, tlsIn.sigalgs_list,
                                            tlsIn.cipher_list), tlsRejects)
    /\ UNCHANGED <<tlsIn, tlsRejects, parseVars, buildVars>>

-----------------------------------------------------------------------------
(* tls_settings: the dispatch over Impersonate, and ImpersonateSettings.    *)

\* The arms of impersonate_match! in tls_settings: variant => path.
impersonate_match ==
    <<
       <<"Chrome100", "v100::get_settings">>,
       <<"Chrome101", "v101::get_settings">>,
       <<"Chrome104", "v104::get_settings">>,
       <<"Chrome105", "v105::get_settings">>,
       <<"Chrome106", "v106::get_settings">>,
       <<"Chrome107", "v107::get_settings">>,
       <<"Chrome108", "v108::get_settings">>,
       <<"Chrome109", "v109::get_settings">>,
       <<"Chrome114", "v114::get_settings">>,
       <<"Chrome116", "v116::get_settings">>,
       <<"Chrome117", "v117::get_settings">>,
       <<"Chrome118", "v118::get_settings">>,
       <<"Chrome119", "v119::get_settings">>,
       <<"Chrome120", "v120::get_settings">>,
       <<"Chrome123", "v123::get_settings">>,
       <<"Chrome124", "v124::get_settings">>,
       <<"Chrome126", "v126::get_settings">>,
       <<"Chrome127", "v127::get_settings">>,
       <<"Chrome128", "v128::get_settings">>,
       <<"Chrome129", "v129::get_settings">>,
       <<"Chrome130", "v130::get_settings">>,
       <<"Chrome131", "v131::get_settings">>,
       <<"SafariIos17_2", "safari_ios_17_2::get_settings">>,
       <<"SafariIos17_4_1", "safari_ios_17_4_1::get_settings">>,
       <<"SafariIos16_5", "safari_ios_16_5::get_settings">>,
       <<"Safari15_3", "safari15_3::get_settings">>,
       <<"Safari15_5", "safari15_5::get_settings">>,
       <<"Safari15_6_1", "safari15_6_1::get_settings">>,
       <<"Safari16", "safari16::get_settings">>,
       <<"Safari16_5", "safari16_5::get_settings">>,
       <<"Safari17_0", "safari17_0::get_settings">>,
       <<"Safari17_2_1", "safari17_2_1::get_settings">>,
       <<"Safari17_4_1", "safari17_4_1::get_settings">>,
       <<"Safari17_5", "safari17_5::get_settings">>,
       <<"Safari18", "safari18::get_settings">>,
       <<"SafariIPad18", "safari_ipad_18::get_settings">>,
       <<"OkHttp3_9", "okhttp3_9::get_settings">>,
       <<"OkHttp3_11", "okhttp3_11::get_settings">>,
       <<"OkHttp3_13", "okhttp3_13::get_settings">>,
       <<"OkHttp3_14", "okhttp3_14::get_settings">>,
       <<"OkHttp4_9", "okhttp4_9::get_settings">>,
       <<"OkHttp4_10", "okhttp4_10::get_settings">>,
       <<"OkHttp5", "okhttp5::get_settings">>,
       <<"Edge101", "edge101::get_settings">>,
       <<"Edge122", "edge122::get_settings">>,
       <<"Edge127", "edge127::get_settings">> >>

\* The get_settings functions the arms name; each holds its own
\* HEADER_INITIALIZER static (one expansion of conditional_headers! each).
Paths == {impersonate_match[i][2] : i \in DOMAIN impersonate_match}

\* match $ver { $variant => $path($with_headers), ... }: the first arm whose
\* pattern is ver.
tls_settings(ver) ==
    LET hits == {i \in DOMAIN impersonate_match : impersonate_match[i][1] = ver}
    IN  impersonate_match[CHOOSE i \in hits : \A j \in hits : i <= j][2]

\* struct ImpersonateSettings; headers and headers_order are
\* #[builder(default)]: None unless the builder sets them.
ImpersonateSettings(tls, http2, headers, headers_order) ==
    [ tls |-> tls, http2 |-> http2,
      headers |-> headers, headers_order |-> headers_order ]

\* ---- conditional_headers! and its LazyLock

\* The macro with the initializer evaluated on every call, no static.
conditional_headers_always(with_headers) == "force"
\* The macro with its branches exchanged.
conditional_headers_inverted(with_headers) ==
    IF with_headers THEN "none" ELSE "force"
\* The macro yielding None whatever the flag.
conditional_headers_never(with_headers) == "none"

\* if $with_headers { static ..; Some(Cow::Borrowed(&*HEADER_INITIALIZER)) }
\* else { None }: whether the static is dereferenced at all.
conditional_headers(with_headers) ==
    IF with_headers THEN "force" ELSE "none"

\* A caller that meets a running initialization runs the initializer too.
LazyLock_force_racy(state) ==
    CASE state = "Incomplete" -> "init"
      [] state = "Running"    -> "init"
      [] state = "Complete"   -> "ready"
\* The initializer is run again on a completed cell.
LazyLock_force_rebuild(state) ==
    CASE state = "Incomplete" -> "init"
      [] state = "Running"    -> "wait"
      [] state = "Complete"   -> "init"

\* &*HEADER_INITIALIZER on a LazyLock: the first accessor runs the
\* initializer, accessors during the run block, later ones read the value.
LazyLock_force(state) ==
    CASE state = "Incomplete" -> "init"
      [] state = "Running"    -> "wait"
      [] state = "Complete"   -> "ready"

\* static HEADER_INITIALIZER: LazyLock<HeaderMap> = LazyLock::new(..)
Uninit == [inst |-> 0]
NewLazyLock == [state |-> "Incomplete", value |-> Uninit]

\* ---- the per-profile builders (chrome::*, safari::*, okhttp::*, edge::*)

\* The header names a profile's initializer may insert, in emission order.
HeaderNames ==
    << "user-agent", "accept", "accept-encoding", "accept-language",
       "cache-control", "dnt", "upgrade-insecure-requests" >>

\* The arms under the `// OkHttp` comment of tls_settings.
IsOkHttp(path) ==
    path \in { "okhttp3_9::get_settings", "okhttp3_11::get_settings",
               "okhttp3_13::get_settings", "okhttp3_14::get_settings",
               "okhttp4_9::get_settings", "okhttp4_10::get_settings",
               "okhttp5::get_settings" }

\* Which of the names a profile sends.
ProfileHeaderNames(path) ==
    IF IsOkHttp(path)
    THEN {"user-agent", "accept", "accept-encoding", "accept-language"}
    ELSE {"user-agent", "accept", "accept-encoding", "accept-language",
          "upgrade-insecure-requests"}

\* The HeaderMap a profile's initializer constructs.
ProfileHeaders(path) ==
    [n \in ProfileHeaderNames(path) |-> <<path, n>>]

\* The profile's header order: its names in emission order.
ProfileHeadersOrder(path) ==
    SelectSeq(HeaderNames, LAMBDA n : n \in ProfileHeaderNames(path))

\* The profile's Http2Settings (cannot fail).
ProfileHttp2(path) == [profile |-> path]

\* The profile's TLS builder, converted by try_into.
ProfileTls(path, rejects) ==
    try_into(OkHttpTlsSettings(None, None,
                 << "TLS_AES_128_GCM_SHA256", "TLS_AES_256_GCM_SHA384" >>),
             rejects)

\* headers_order as get_settings passes it to the builder.
ProfileOrderOption(path, with_headers) ==
    IF with_headers THEN Some(ProfileHeadersOrder(path)) ELSE None

-----------------------------------------------------------------------------
(* Concurrent callers of tls_settings(ver, with_headers).                   *)

NumThreads == 2
MaxCalls == 3

Threads == 1..NumThreads

\* The profiles the callers ask for: one arm of each of two families.
ModelVers == {"Chrome131", "OkHttp4_10"}

\* The engine's verdicts a build may meet: everything accepted, or the
\* profile's cipher string rejected.
BuildRejects == { {}, {"set_cipher_list"} }

NoCall ==
    [ ver |-> "-", with_headers |-> FALSE, tls |-> Unset, rejected |-> {},
      blocked |-> FALSE ]


\* The get_settings function thread t is in.
PathOf(t) == tls_settings(call[t].ver)

\* tls_settings(ver, with_headers) is entered: the match selects the arm.
Call(t, ver, with_headers) ==
    /\ pc[t] = "idle"
    /\ ncalls < MaxCalls
    /\ ncalls' = ncalls + 1
    /\ call' = [call EXCEPT ![t] = [ver |-> ver, with_headers |-> with_headers,
                                    tls |-> Unset, rejected |-> {},
                                    blocked |-> FALSE]]
    /\ pc' = [pc EXCEPT ![t] = "get_settings"]
    /\ UNCHANGED <<cache, ret, nextInst, initCount, returned, parseVars, tlsVars>>

\* get_settings runs the profile's TLS builder. The engine's error ends the
\* call with that error and no ImpersonateSettings; tls_settings passes on
\* what its arm yields.
BuildTls(t) ==
    /\ pc[t] = "get_settings"
    /\ \E rejects \in BuildRejects :
         LET r == ProfileTls(PathOf(t), rejects) IN
         IF r.kind = "Err"
         THEN /\ ret' = [ret EXCEPT ![t] =
                    [ kind |-> "Err", error |-> r.error, ver |-> call[t].ver,
                      with_headers |-> call[t].with_headers,
                      rejected |-> rejects ]]
              /\ pc' = [pc EXCEPT ![t] = "idle"]
              /\ call' = call
         ELSE /\ call' = [call EXCEPT ![t].tls = r.value,
                                      ![t].rejected = rejects]
              /\ pc' = [pc EXCEPT ![t] = "headers"]
              /\ ret' = ret
    /\ UNCHANGED <<cache, ncalls, nextInst, initCount, returned, parseVars, tlsVars>>

\* What the call returns: the aggregate, with what the caller saw on the
\* way: the HeaderMap read through the headers reference at that moment
\* (seen), the engine's verdict on its TLS builder (rejected), whether it
\* had to wait for another caller's initialization (blocked).
Settings(t, headers, seen) ==
    [ kind  |-> "Ok",
      value |-> ImpersonateSettings(
                    call[t].tls, ProfileHttp2(PathOf(t)), headers,
                    ProfileOrderOption(PathOf(t), call[t].with_headers)),
      seen  |-> seen,
      ver   |-> call[t].ver,
      with_headers |-> call[t].with_headers,
      rejected |-> call[t].rejected,
      blocked |-> call[t].blocked ]

\* conditional_headers! takes its else branch: None, the static untouched.
HeadersNone(t) ==
    /\ pc[t] = "headers"
    /\ conditional_headers(call[t].with_headers) = "none"
    /\ ret' = [ret EXCEPT ![t] = Settings(t, None, Uninit)]
    /\ pc' = [pc EXCEPT ![t] = "idle"]
    /\ UNCHANGED <<cache, call, ncalls, nextInst, initCount, returned,
                   parseVars, tlsVars>>

\* conditional_headers! dereferences the static: LazyLock::force.
HeadersForce(t) ==
    /\ pc[t] = "headers"
    /\ conditional_headers(call[t].with_headers) = "force"
    /\ LET m == PathOf(t)
           todo == LazyLock_force(cache[m].state)
       IN  /\ pc' = [pc EXCEPT ![t] = todo]
           /\ cache' = IF todo = "init"
                       THEN [cache EXCEPT ![m].state = "Running"]
                       ELSE cache
           /\ call' = IF todo = "wait"
                      THEN [call EXCEPT ![t].blocked = TRUE]
                      ELSE call
    /\ UNCHANGED <<ncalls, ret, nextInst, initCount, returned, parseVars, tlsVars>>

\* The initializer closure runs and its HeaderMap is written into the cell.
InitRun(t) ==
    /\ pc[t] = "init"
    /\ LET m == PathOf(t) IN
       /\ cache' = [cache EXCEPT ![m].value =
                       [inst |-> nextInst, map |-> ProfileHeaders(m)]]
       /\ initCount' = [initCount EXCEPT ![m] = @ + 1]
    /\ nextInst' = nextInst + 1
    /\ pc' = [pc EXCEPT ![t] = "complete"]
    /\ UNCHANGED <<call, ncalls, ret, returned, parseVars, tlsVars>>

\* The Once is marked complete, which releases the blocked accessors.
InitComplete(t) ==
    /\ pc[t] = "complete"
    /\ cache' = [cache EXCEPT ![PathOf(t)].state = "Complete"]
    /\ pc' = [pc EXCEPT ![t] = "ready"]
    /\ UNCHANGED <<call, ncalls, ret, nextInst, initCount, returned,
                   parseVars, tlsVars>>

\* A blocked accessor resumes once the cell is complete.
Wake(t) ==
    /\ pc[t] = "wait"
    /\ cache[PathOf(t)].state = "Complete"
    /\ pc' = [pc EXCEPT ![t] = "ready"]
    /\ UNCHANGED <<cache, call, ncalls, ret, nextInst, initCount, returned,
                   parseVars, tlsVars>>

\* Some(Cow::Borrowed(&*HEADER_INITIALIZER)) and the aggregate is returned.
HeadersSome(t) ==
    /\ pc[t] = "ready"
    /\ LET m == PathOf(t)
           ref == [static |-> m, inst |-> cache[m].value.inst]
       IN  /\ ret' = [ret EXCEPT ![t] = Settings(t, Some(ref), cache[m].value)]
           /\ returned' = [returned EXCEPT ![m] = @ \cup {ref.inst}]
    /\ pc' = [pc EXCEPT ![t] = "idle"]
    /\ UNCHANGED <<cache, call, ncalls, nextInst, initCount, parseVars, tlsVars>>

-----------------------------------------------------------------------------
(* The specifications.                                                      *)

NextParse == \E s \in ParseInputs : Parse(s)

NextTls == Convert

NextBuild ==
    \E t \in Threads :
        \/ \E ver \in ModelVers, with_headers \in BOOLEAN :
               Call(t, ver, with_headers)
        \/ BuildTls(t)
        \/ HeadersNone(t)
        \/ HeadersForce(t)
        \/ InitRun(t)
        \/ InitComplete(t)
        \/ Wake(t)
        \/ HeadersSome(t)

InitParse ==
    /\ text = NoText
    /\ parsed = NoResult
    /\ prevText = NoText
    /\ prevParsed = NoResult
    /\ tlsIn = [curves |-> None, sigalgs_list |-> None, cipher_list |-> << >>]
    /\ tlsRejects = {}
    /\ tlsOut = NoResult
    /\ cache = [m \in Paths |-> NewLazyLock]
    /\ pc = [t \in Threads |-> "idle"]
    /\ call = [t \in Threads |-> NoCall]
    /\ ncalls = 0
    /\ ret = [t \in Threads |-> NoResult]
    /\ nextInst = 1
    /\ initCount = [m \in Paths |-> 0]
    /\ returned = [m \in Paths |-> {}]

InitTls ==
    /\ text = NoText
    /\ parsed = NoResult
    /\ prevText = NoText
    /\ prevParsed = NoResult
    /\ tlsIn \in [ curves : CurveOverrides, sigalgs_list : SigalgsOverrides,
                    cipher_list : CipherLists ]
    /\ tlsRejects \in SUBSET FallibleCalls
    /\ tlsOut = NoResult
    /\ cache = [m \in Paths |-> NewLazyLock]
    /\ pc = [t \in Threads |-> "idle"]
    /\ call = [t \in Threads |-> NoCall]
    /\ ncalls = 0
    /\ ret = [t \in Threads |-> NoResult]
    /\ nextInst = 1
    /\ initCount = [m \in Paths |-> 0]
    /\ returned = [m \in Paths |-> {}]

Init ==
    /\ text = NoText
    /\ parsed = NoResult
    /\ prevText = NoText
    /\ prevParsed = NoResult
    /\ tlsIn = [curves |-> None, sigalgs_list |-> None, cipher_list |-> << >>]
    /\ tlsRejects = {}
    /\ tlsOut = NoResult
    /\ cache = [m \in Paths |-> NewLazyLock]
    /\ pc = [t \in Threads |-> "idle"]
    /\ call = [t \in Threads |-> NoCall]
    /\ ncalls = 0
    /\ ret = [t \in Threads |-> NoResult]
    /\ nextInst = 1
    /\ initCount = [m \in Paths |-> 0]
    /\ returned = [m \in Paths |-> {}]

SpecParse == InitParse /\ [][NextParse]_vars
SpecTls == InitTls /\ [][NextTls]_vars
Spec == Init /\ [][NextBuild]_vars

-----------------------------------------------------------------------------
(* Properties of the parser (checked under SpecParse).                      *)

\* The text that follows the fixed words of the parser's error message.
UnknownPrefix == "Unknown impersonate version: "

\* C2: from_str(text) is Ok exactly when text is, character for character,
\* one string of the table; every other text (other case, a prefix or an
\* extension of an entry, surrounding blanks, a variant's Rust name) gets an
\* Err whose message ends in the text as given, and no variant at all: not
\* the Default one either.
C2_ParseExactOrError ==
    parsed # NoResult =>
        /\ (parsed.kind = "Ok") <=> (text \in TableStrings)
        /\ text \in ForeignTexts =>
              /\ parsed.kind = "Err"
              /\ parsed.error = UnknownPrefix \o text
              /\ "value" \notin DOMAIN parsed
              /\ parsed # Ok(ImpersonateDefault)
        /\ text = "chrome_999" =>
              parsed = Err("Unknown impersonate version: chrome_999")

\* C2's case: an unknown identifier has been parsed and refused.
C2_Witness ==
    /\ text = "chrome_999"
    /\ parsed.kind = "Err"

\* The string the table pairs with variant v.
CanonicalString(v) ==
    LET hits == {i \in DOMAIN impl_from_str_rows : impl_from_str_rows[i][1] = v}
    IN  impl_from_str_rows[CHOOSE i \in hits : \A j \in hits : i <= j][2]

\* Every variant of the enumeration is what exactly one table string parses
\* to.
EachVariantOnce ==
    \A v \in Variants :
        Cardinality({s \in TableStrings : from_str(s) = Ok(v)}) = 1

\* C3: the table is a bijection between its strings and the variants of
\* Impersonate: every table string parses, two different table strings
\* parse to different variants, every variant of the enumeration is what
\* exactly one table string parses to, and the string the table pairs with
\* from_str(s) is s again.
C3_TableBijection ==
    /\ text \in TableStrings =>
          /\ parsed.kind = "Ok"
          /\ parsed.value \in Variants
          /\ CanonicalString(parsed.value) = text
    /\ (text \in TableStrings /\ prevText \in TableStrings /\ text # prevText)
          => parsed.value # prevParsed.value
    /\ EachVariantOnce
    /\ Cardinality(TableStrings) = Cardinality(Variants)

\* C3's case: two different table strings have been parsed one after the
\* other.
C3_Witness ==
    /\ text \in TableStrings
    /\ prevText \in TableStrings
    /\ text # prevText
    /\ parsed.kind = "Ok"
    /\ prevParsed.kind = "Ok"

-----------------------------------------------------------------------------
(* Properties of the TLS conversion (checked under SpecTls).                *)

\* The fallible steps in the order the conversion takes them.
StepOrder ==
    << "SslConnector::builder", "set_curves", "set_sigalgs_list",
       "set_cipher_list", "set_min_proto_version", "set_max_proto_version" >>

\* The fallible engine calls among those logged.
FallibleLog(calls) == SelectSeq(calls, LAMBDA c : c \in FallibleCalls)

\* C7: when the engine rejects steps of the conversion, try_into returns the
\* error of the first rejected step in the order connector, curves,
\* signature algorithms, ciphers, minimum version, maximum version; no later
\* step is asked of the engine and no TlsSettings comes back. A TlsSettings
\* comes back only when all six steps were accepted.
C7_FirstErrorWins ==
    tlsOut # NoResult =>
        LET bad == {i \in DOMAIN StepOrder : StepOrder[i] \in tlsRejects}
        IN  IF bad = {}
            THEN /\ tlsOut.kind = "Ok"
                 /\ FallibleLog(tlsOut.calls) = StepOrder
            ELSE LET k == CHOOSE i \in bad : \A j \in bad : i <= j
                 IN  /\ tlsOut.kind = "Err"
                     /\ tlsOut.error = StepOrder[k]
                     /\ FallibleLog(tlsOut.calls) = SubSeq(StepOrder, 1, k)
                     /\ "value" \notin DOMAIN tlsOut

\* C7's case: the engine rejects the signature algorithms and a later step
\* too, and the conversion has ended with the signature algorithms' error.
C7_Witness ==
    /\ tlsOut.kind = "Err"
    /\ tlsOut.error = "set_sigalgs_list"
    /\ "set_max_proto_version" \in tlsRejects

RECURSIVE ColonSeparated(_)
\* The entries of list in order, a ':' between neighbours.
ColonSeparated(list) ==
    IF list = << >> THEN ""
    ELSE IF Len(list) = 1 THEN list[1]
    ELSE list[1] \o ":" \o ColonSeparated(Tail(list))

\* C10: a successful conversion has configured the engine with the curve
\* override when one is given and else X25519, SECP256R1, SECP384R1 in that
\* order; with the signature algorithms joined by ':' in list order (the
\* nine baseline entries when the profile gives none); with the ciphers
\* joined by ':' in list order; with TLS 1.2 as minimum and TLS 1.3 as
\* maximum version.
C10_ConfiguredValues ==
    (tlsOut # NoResult /\ tlsOut.kind = "Ok") =>
        LET c == tlsOut.value.connector IN
        /\ c.curves = IF tlsIn.curves.some THEN tlsIn.curves.value
                      ELSE << "X25519", "SECP256R1", "SECP384R1" >>
        /\ tlsIn.sigalgs_list.some =>
              c.sigalgs = ColonSeparated(tlsIn.sigalgs_list.value)
        /\ ~tlsIn.sigalgs_list.some =>
              c.sigalgs = "ecdsa_secp256r1_sha256:rsa_pss_rsae_sha256:rsa_pkcs1_sha256:ecdsa_secp384r1_sha384:rsa_pss_rsae_sha384:rsa_pkcs1_sha384:rsa_pss_rsae_sha512:rsa_pkcs1_sha512:rsa_pkcs1_sha1"
        /\ c.ciphers = ColonSeparated(tlsIn.cipher_list)
        /\ c.min = "TLS1_2"
        /\ c.max = "TLS1_3"

\* C10's case: a profile with two ciphers, no curve override and the
\* baseline signature algorithms has been converted.
C10_Witness ==
    /\ tlsOut.kind = "Ok"
    /\ ~tlsIn.curves.some
    /\ ~tlsIn.sigalgs_list.some
    /\ Len(tlsIn.cipher_list) = 2
    /\ tlsIn.cipher_list[1] # tlsIn.cipher_list[2]

-----------------------------------------------------------------------------
(* Properties of tls_settings under concurrent callers (checked under Spec). *)

\* Thread t's latest call returned an aggregate that carries headers.
GotHeaders(t) ==
    /\ ret[t].kind = "Ok"
    /\ ret[t].value.headers.some

\* C1: when callers of tls_settings(p, true) meet on p's uninitialised
\* static, p's initializer runs once whatever the interleaving, every caller
\* gets a reference to the one HeaderMap it constructed, and what a caller
\* reads through its reference when it returns is that complete map, never
\* the uninitialised cell.
C1_InitializedOnce ==
    /\ \A m \in Paths : initCount[m] <= 1
    /\ \A t \in Threads :
          GotHeaders(t) =>
              LET ref == ret[t].value.headers.value IN
              /\ ref.static = tls_settings(ret[t].ver)
              /\ initCount[ref.static] = 1
              /\ ret[t].seen # Uninit
              /\ ret[t].seen.inst = ref.inst
              /\ ret[t].seen.map = ProfileHeaders(ref.static)
    /\ \A t1, t2 \in Threads :
          (GotHeaders(t1) /\ GotHeaders(t2) /\ ret[t1].ver = ret[t2].ver)
              => ret[t1].value.headers.value = ret[t2].value.headers.value

\* C1's case: two callers of the same profile have both returned with
\* headers, one of them after waiting for the other's initialization.
C1_Witness ==
    \E t1, t2 \in Threads :
        /\ t1 # t2
        /\ GotHeaders(t1)
        /\ GotHeaders(t2)
        /\ ret[t1].ver = ret[t2].ver
        /\ ret[t2].blocked
        /\ ~ret[t1].blocked

\* C4: all calls tls_settings(id, true), however many and whatever other
\* calls come between them, hand out the same HeaderMap instance; a static
\* that is complete is never initialized again and never changes.
C4_CachedInstanceStable ==
    /\ [](\A m \in Paths : Cardinality(returned[m]) <= 1)
    /\ [][\A m \in Paths :
             cache[m].state = "Complete" => cache'[m] = cache[m]]_vars

\* C4's case: a caller has returned with the headers of a profile that
\* another caller, which did not have to wait, also holds: the second call
\* came after the initialization.
C4_Witness ==
    \E t1, t2 \in Threads :
        /\ t1 # t2
        /\ GotHeaders(t1)
        /\ GotHeaders(t2)
        /\ ret[t1].ver = ret[t2].ver
        /\ ~ret[t1].blocked
        /\ ~ret[t2].blocked
        /\ ncalls = MaxCalls

ArmsDistinct ==
    \A p, q \in Variants : p # q => tls_settings(p) # tls_settings(q)

\* C9: the static of a profile changes only in steps of a caller that is in
\* tls_settings(p, true) for that very profile, and only while it is not yet
\* complete; a caller with with_headers = false never reaches the
\* initializer; different profiles have different statics.
C9_CacheFrame ==
    /\ [][\A m \in Paths :
             cache'[m] # cache[m] =>
                 /\ cache[m].state # "Complete"
                 /\ \E t \in Threads :
                       /\ pc'[t] # pc[t]
                       /\ call[t].with_headers
                       /\ tls_settings(call[t].ver) = m]_vars
    /\ [](\A t \in Threads :
             pc[t] \in {"init", "complete", "wait", "ready"}
                 => call[t].with_headers)
    /\ [](\A m \in Paths :
             cache[m].state = "Incomplete" => initCount[m] = 0)
    /\ []ArmsDistinct

\* C9's case: a call with with_headers = false has returned for a profile
\* whose static is still uninitialised, while another profile's static has
\* been initialized.
C9_Witness ==
    /\ \E t \in Threads :
          /\ ret[t].kind = "Ok"
          /\ ~ret[t].with_headers
          /\ cache[tls_settings(ret[t].ver)].state = "Incomplete"
    /\ \E m \in Paths : cache[m].state = "Complete"

====
